---- MODULE Spec2Model ----
(***************************************************************************)
(* A model of the s4 gateway (src/src/s4/server.py): the command line      *)
(* entry point cli() that resolves the configuration and starts the Flask  *)
(* application, the before_request hook validate(), the two routes         *)
(* connect() and sql(), the executor s4_sql() and the teardown hook; with   *)
(* configure_s4() of src/src/s4/cli.py and the client's liveness check of  *)
(* src/src/s4/client.py.                                                   *)
(***************************************************************************)
EXTENDS Integers, Sequences, FiniteSets, TLC

\* ------------------------------------------------------------------ bounds
MaxReq == 3        \* requests sent to the gateway one after the other
MaxConc == 2       \* requests the gateway handles concurrently
MaxGen == 1        \* secrets generated by create_config_file over one behaviour
MaxStarts == 1     \* times the server is started with --run

Requests == 1..MaxReq

\* ------------------------------------------------------------------ values
\* Python's None: the value of Flask's default SECRET_KEY and the default of
\* request.headers.get('s4-Secret-Key', None).
None == "None"
\* A key that a dict (config.json's object, app.config) does not hold.
Unset == "<unset>"
DefaultSecret == "s4"
MemoryDb == ":memory:"
DbPath == "instance/s4.db"
\* A credential no configuration ever holds.
WrongKey == "wrong"

\* secrets.token_urlsafe(32): the n-th token drawn; Token(0) is the secret of a
\* config.json written before the behaviour starts.
Token(n) == "tok" \o ToString(n)

\* ------------------------------------------------------------------ state
VARIABLES
    file,       \* instance/config.json: [kind, sk, db]
    genCount,   \* tokens drawn so far
    phase,      \* "stopped" | "running": whether app.run() is serving
    starts,     \* times app.run() was reached
    appConfig,  \* app.config of the serving process: [SECRET_KEY, DATABASE]
    runConfig,  \* cli()'s local `config` when the serving invocation reached `if run:`
    warned,     \* the serving invocation echoed 'No configuration file found...'
    lastCli,    \* the last cli() invocation: its flags, prompt, echo and exit
    pc,         \* per request: where its handling stands
    req,        \* per request: endpoint, s4-Secret-Key header, JSON body
    g,          \* flask.g per application context: the 'db' attribute
    conns,      \* the sqlite3.Connection opened by each request, if any
    disk,       \* the committed content of the database file at DbPath
    cur,        \* per request: the cursor of s4_sql
    resp        \* per request: the response produced

cliVars == <<file, genCount, phase, starts, appConfig, runConfig, warned, lastCli>>
reqVars == <<pc, req, g, conns, disk, cur, resp>>
vars == <<file, genCount, phase, starts, appConfig, runConfig, warned, lastCli,
          pc, req, g, conns, disk, cur, resp>>

\* ------------------------------------------------------------ config file
NoFile == [kind |-> "absent", sk |-> Unset, db |-> Unset]
CorruptFile == [kind |-> "corrupt", sk |-> Unset, db |-> Unset]
JsonFile(sk, db) == [kind |-> "json", sk |-> sk, db |-> db]

\* The value False that read_config_file returns when there is no file.
False == [t |-> "False", SECRET_KEY |-> Unset, DATABASE |-> Unset]
Dict(sk, db) == [t |-> "dict", SECRET_KEY |-> sk, DATABASE |-> db]

\* Python truthiness of cli()'s `config`: False and the empty dict are falsy.
Truthy(c) == c.t = "dict" /\ (c.SECRET_KEY # Unset \/ c.DATABASE # Unset)

\* json.dump(_config, file) and json.load(file) on the object's two keys.
JsonDump(c) == JsonFile(c.SECRET_KEY, c.DATABASE)
JsonLoad(f) == Dict(f.sk, f.db)

\* read_config_file: json.load raises on an unparseable file (JSONDecodeError is
\* not caught), FileNotFoundError becomes False.
ReadRaises(f) == f.kind \in {"corrupt", "truncated"}
ReadConfigFile(f) == IF f.kind = "absent" THEN False ELSE JsonLoad(f)

\* create_config_file: the dict it builds and returns; the file it writes is
\* JsonDump of it.
CreateConfigFile(n) == Dict(Token(n), DbPath)

\* open(path, "w") empties config.json, and json.dump then writes the text of
\* the object piece by piece into it. What a process killed between the open
\* and the close of the file leaves: the empty file, the text up to the
\* first member, the text up to the second member without the closing brace,
\* or, killed after the last write reached the file, the whole text.
Torn(f) ==
    {[kind |-> "truncated", sk |-> Unset, db |-> Unset],
     [kind |-> "truncated", sk |-> f.sk, db |-> Unset],
     [kind |-> "truncated", sk |-> f.sk, db |-> f.db],
     f}

\* Flask's default app.config: SECRET_KEY is None, there is no DATABASE key.
FlaskDefaults == [SECRET_KEY |-> None, DATABASE |-> Unset]

\* app.config.from_mapping(config): sets the keys the mapping holds.
FromMapping(cfg, c) ==
    [SECRET_KEY |-> IF c.SECRET_KEY # Unset THEN c.SECRET_KEY ELSE cfg.SECRET_KEY,
     DATABASE   |-> IF c.DATABASE # Unset THEN c.DATABASE ELSE cfg.DATABASE]

\* The degraded default of cli() when `not config`.
DegradedConfig == Dict(DefaultSecret, MemoryDb)


\* ------------------------------------------------------------------ cli()
\* Line 196-204: whether this invocation calls create_config_file. With a
\* truthy config it does so only when click.confirm returned True.
OverwritesNoAsk(config0, configure, confirm) == configure

Overwrites(config0, configure, confirm) ==
    configure /\ (Truthy(config0) => confirm)

\* Line 207-212: `if not config:` replaces config by the degraded default.
Resolve(config1) == IF ~Truthy(config1) THEN DegradedConfig ELSE config1

\* Line 214-217: app.config of the process that reaches app.run().
RunConfig(config1, in_memory) ==
    LET mapped == FromMapping(FlaskDefaults, Resolve(config1))
    IN  IF in_memory THEN [mapped EXCEPT !.DATABASE = MemoryDb] ELSE mapped

CliRecord(configure, asked, confirm, exit) ==
    [configure |-> configure, asked |-> asked, confirm |-> confirm, exit |-> exit]

\* The state cli() works on, as one record.
CliState ==
    [file |-> file, genCount |-> genCount, phase |-> phase, starts |-> starts,
     appConfig |-> appConfig, runConfig |-> runConfig, warned |-> warned,
     lastCli |-> lastCli]

\* Before any invocation, with config.json holding f.
Fresh(f) ==
    [file |-> f, genCount |-> 0, phase |-> "stopped", starts |-> 0,
     appConfig |-> FlaskDefaults, runConfig |-> False, warned |-> FALSE,
     lastCli |-> CliRecord(FALSE, FALSE, FALSE, "none")]

\* Line 206-220: `if run:` on the state t that --configure left. Only the
\* process that reaches app.run() gets an app.config; an invocation without
\* --run ends and touches no serving process.
AppRunHotSwap(t, config1, in_memory, run) ==
    IF run
    THEN [t EXCEPT !.phase = "running",
                   !.starts = @ + 1,
                   !.appConfig = RunConfig(config1, in_memory),
                   !.runConfig = config1,
                   !.warned = ~Truthy(config1)]
    ELSE [t EXCEPT !.appConfig = IF t.phase = "running"
                                 THEN FromMapping(@, config1) ELSE @]

AppRun(t, config1, in_memory, run) ==
    IF run
    THEN [t EXCEPT !.phase = "running",
                   !.starts = @ + 1,
                   !.appConfig = RunConfig(config1, in_memory),
                   !.runConfig = config1,
                   !.warned = ~Truthy(config1)]
    ELSE t

\* One invocation of cli(version, configure, run, log_level, in_memory, port)
\* on state s, up to and including the call of app.run(). `confirm` is the
\* operator's answer to click.confirm. An unparseable config.json makes
\* read_config_file raise, and the process ends there.
CliStep(s, configure, run, in_memory, confirm) ==
    IF ReadRaises(s.file)
    THEN [s EXCEPT !.lastCli = CliRecord(configure, FALSE, FALSE, "raised")]
    ELSE LET config0 == ReadConfigFile(s.file)
             asked == configure /\ Truthy(config0)
             writes == Overwrites(config0, configure, confirm)
             config1 == IF writes THEN CreateConfigFile(s.genCount + 1) ELSE config0
             t == [s EXCEPT !.file = IF writes THEN JsonDump(config1) ELSE @,
                            !.genCount = IF writes THEN @ + 1 ELSE @,
                            !.lastCli = CliRecord(configure, asked, asked /\ confirm,
                                           IF run THEN "serving" ELSE "returned")]
         IN  AppRun(t, config1, in_memory, run)

\* What the model lets an invocation do: one server at a time, the prompt's
\* answer only where the prompt is shown, the bounds on starts and tokens.
CliEnabled(s, configure, run, in_memory, confirm) ==
    /\ run => (s.phase = "stopped" /\ s.starts < MaxStarts)
    /\ ~run => ~in_memory
    /\ confirm => (configure /\ ~ReadRaises(s.file) /\ Truthy(ReadConfigFile(s.file)))
    /\ CliStep(s, configure, run, in_memory, confirm).genCount <= MaxGen

CliVarsAre(t) ==
    /\ file = t.file
    /\ genCount = t.genCount
    /\ phase = t.phase
    /\ starts = t.starts
    /\ appConfig = t.appConfig
    /\ runConfig = t.runConfig
    /\ warned = t.warned
    /\ lastCli = t.lastCli

Cli(configure, run, in_memory, confirm) ==
    /\ CliEnabled(CliState, configure, run, in_memory, confirm)
    /\ LET t == CliStep(CliState, configure, run, in_memory, confirm)
       IN  /\ file' = t.file
           /\ genCount' = t.genCount
           /\ phase' = t.phase
           /\ starts' = t.starts
           /\ appConfig' = t.appConfig
           /\ runConfig' = t.runConfig
           /\ warned' = t.warned
           /\ lastCli' = t.lastCli
    /\ UNCHANGED reqVars

\* ------------------------------------------- configure_s4() of s4/cli.py
\* generate_config_file(config_file_path, database_file_path): the dict it
\* builds and returns; the file it writes is JsonDump of it.
GenerateConfigFile(n) == Dict(Token(n), DbPath)

\* Line 66-72: whether configure_s4 calls generate_config_file. It asks when
\* os.path.exists(config_file_path), whatever the file holds.
Generates(f, confirm) == f.kind # "absent" => confirm

\* configure_s4() on state s. `dbOpens` is whether sqlite3.connect on the
\* database file succeeds; when it raises sqlite3.Error the function returns.
ConfigureStep(s, confirm, dbOpens) ==
    IF ~dbOpens
    THEN [s EXCEPT !.lastCli = CliRecord(TRUE, FALSE, FALSE, "db-error")]
    ELSE LET asked == s.file.kind # "absent"
             writes == Generates(s.file, confirm)
         IN  [s EXCEPT !.file = IF writes
                                THEN JsonDump(GenerateConfigFile(s.genCount + 1))
                                ELSE @,
                       !.genCount = IF writes THEN @ + 1 ELSE @,
                       !.lastCli = CliRecord(TRUE, asked, asked /\ confirm,
                                             "returned")]

\* `s4 --configure` of s4/cli.py: one call of configure_s4().
ConfigureS4(confirm, dbOpens) ==
    /\ confirm => (dbOpens /\ file.kind # "absent")
    /\ ConfigureStep(CliState, confirm, dbOpens).genCount <= MaxGen
    /\ LET t == ConfigureStep(CliState, confirm, dbOpens)
       IN  /\ file' = t.file
           /\ genCount' = t.genCount
           /\ lastCli' = t.lastCli
    /\ UNCHANGED <<phase, starts, appConfig, runConfig, warned>>
    /\ UNCHANGED reqVars

\* ------------------------------------------------- a killed invocation
\* cli() of server.py killed inside create_config_file, after the token was
\* drawn and open(..., "w") was reached: nothing after line 27-28 runs.
CliKilled(confirm, left) ==
    /\ ~ReadRaises(file)
    /\ confirm => Truthy(ReadConfigFile(file))
    /\ Overwrites(ReadConfigFile(file), TRUE, confirm)
    /\ genCount < MaxGen
    /\ left \in Torn(JsonDump(CreateConfigFile(genCount + 1)))
    /\ file' = left
    /\ genCount' = genCount + 1
    /\ lastCli' = CliRecord(TRUE, Truthy(ReadConfigFile(file)), confirm, "killed")
    /\ UNCHANGED <<phase, starts, appConfig, runConfig, warned>>
    /\ UNCHANGED reqVars

\* configure_s4() of cli.py killed inside generate_config_file, line 33-34.
ConfigureS4Killed(confirm, left) ==
    /\ confirm => file.kind # "absent"
    /\ Generates(file, confirm)
    /\ genCount < MaxGen
    /\ left \in Torn(JsonDump(GenerateConfigFile(genCount + 1)))
    /\ file' = left
    /\ genCount' = genCount + 1
    /\ lastCli' = CliRecord(TRUE, file.kind # "absent", confirm, "killed")
    /\ UNCHANGED <<phase, starts, appConfig, runConfig, warned>>
    /\ UNCHANGED reqVars

\* ------------------------------------------------- the client, client.py
\* s4(url, secret_key): the base URL of the gateway with the trailing slash
\* stripped; requests puts the path "/" on a GET of a URL without a path.
BaseUrlPath == "/"

\* verify_connection(): the GET of self.s4_url that __init__ sends, with the
\* session's s4-Secret-Key header.
VerifyConnectionGet(secret_key) ==
    [endpoint |-> BaseUrlPath, header |-> secret_key, body |-> [k |-> "absent", row |-> <<>>]]

\* Line 52-53: verify_connection raises ConnectionError.
VerifyRaises(response) == response.status # 200

\* --------------------------------------------------------------- database
\* The one table the statements below work on, and its columns as
\* cursor.description reports them for SELECT * FROM t.
Fields == <<"id", "name">>

EmptyDb == [exists |-> FALSE, rows |-> <<>>]

\* The SQL texts a client sends: CREATE TABLE t(id INTEGER, name TEXT),
\* INSERT INTO t VALUES (id, 'a'), SELECT * FROM t and SELEC * FROM t.
Create == [k |-> "create", row |-> <<>>]
Insert(id) == [k |-> "insert", row |-> <<id, "a">>]
Select == [k |-> "select", row |-> <<>>]
Malformed == [k |-> "malformed", row |-> <<>>]

\* The `sql` member of the request's JSON body: absent, the empty string, a
\* number (a truthy value that is no string), or one of the texts above.
NoSqlKey == [k |-> "absent", row |-> <<>>]
EmptySql == [k |-> "empty", row |-> <<>>]
NumberSql == [k |-> "number", row |-> <<>>]

Bodies(r) == {NoSqlKey, EmptySql, NumberSql, Create, Insert(r), Select, Malformed}

\* `_sql` of sql() is falsy: request.json.get('sql', False) gave False or ''.
FalsyAbsentOnly(body) == body.k = "absent"

Falsy(body) == body.k \in {"absent", "empty"}

\* dict_factory: {key: value for key, value in zip(fields, row)}; a later
\* column of the same name replaces an earlier one.
DictFactory(fields, row) ==
    LET n == IF Len(fields) < Len(row) THEN Len(fields) ELSE Len(row)
        last(f) == CHOOSE i \in 1..n :
                     fields[i] = f /\ \A j \in 1..n : fields[j] = f => j <= i
    IN  [f \in {fields[i] : i \in 1..n} |-> row[last(f)]]

\* ------------------------------------------------------------ connections
\* flask.g belongs to the application context, and every request is handled
\* in an application context of its own.
CtxShared(r) == 1

Ctx(r) == r

NoHandle == 0

\* A connection object is named by the request whose validate() made it: a
\* request calls sqlite3.connect at most once.
NoConn ==
    [target |-> "none", open |-> FALSE, closes |-> 0, opener |-> NoHandle,
     users |-> {}, pending |-> <<>>, store |-> EmptyDb]

\* sqlite3.connect(database): a new connection. ':memory:' gives the
\* connection a store of its own, a path gives it the database file.
ConnectOneStore(database, r) ==
    [target |-> "file", open |-> TRUE, closes |-> 0, opener |-> r, users |-> {},
     pending |-> <<>>, store |-> EmptyDb]

Connect(database, r) ==
    [target |-> IF database = MemoryDb THEN "memory" ELSE "file",
     open |-> TRUE, closes |-> 0, opener |-> r, users |-> {},
     pending |-> <<>>, store |-> EmptyDb]

\* The committed content connection h reads.
StoreOf(h) == IF conns[h].target = "file" THEN disk ELSE conns[h].store

\* Another open connection on the database file holds the write lock: its
\* implicit transaction has an INSERT that is not committed yet.
LockedByAnyOpen(h) ==
    /\ conns[h].target = "file"
    /\ \E o \in Requests : o # h /\ conns[o].open /\ conns[o].target = "file"

Locked(h) ==
    /\ conns[h].target = "file"
    /\ \E o \in Requests :
         o # h /\ conns[o].open /\ conns[o].target = "file" /\ conns[o].pending # <<>>

\* ---------------------------------------------------------------- responses
NoResp == [status |-> 0, kind |-> "none", msg |-> "", rows |-> <<>>]
\* jsonify({'error': 'Invalid secret key.'}), 401
AuthFailure == [status |-> 401, kind |-> "error", msg |-> "Invalid secret key.",
                rows |-> <<>>]
\* A dict returned by a view becomes a JSON response with status 200.
ErrorDict(msg) == [status |-> 200, kind |-> "error", msg |-> msg, rows |-> <<>>]
SqlResponse(rows) == [status |-> 200, kind |-> "sqlResponse", msg |-> "",
                      rows |-> rows]
ConnectText == [status |-> 200, kind |-> "text",
                msg |-> "Connection to s4 server established successfully!",
                rows |-> <<>>]
\* No route matches the request's path: werkzeug's NotFound, answered 404.
NotFound == [status |-> 404, kind |-> "notfound", msg |-> "Not Found", rows |-> <<>>]
\* An exception that leaves a handler: Flask answers 500 with its error page.
Unhandled(exc) == [status |-> 500, kind |-> "unhandled", msg |-> exc, rows |-> <<>>]

NoCursor == [state |-> "none", conn |-> NoHandle, result |-> <<>>]

\* ------------------------------------------------------------------ requests
\* The values of the s4-Secret-Key header a client sends: no header (None), a
\* credential the gateway does not hold, and the secret the gateway holds.
Headers == {None, WrongKey, appConfig.SECRET_KEY}

NoRequest == [endpoint |-> "", header |-> None, body |-> NoSqlKey]

InFlight(r) == pc[r] \notin {"idle", "done"}

\* Line 119: the request passes when the header equals app.config['SECRET_KEY'].
Authorized(header, secret) == header = secret

\* What clients send: with the gateway's secret, either endpoint and every
\* body; without it, the liveness check and a statement that would write
\* (validate reads nothing of the request but the header).
Inputs(r) ==
    {[endpoint |-> "/api/connect", header |-> h, body |-> NoSqlKey] : h \in Headers}
    \cup {[endpoint |-> "/api/sql", header |-> appConfig.SECRET_KEY, body |-> b] :
            b \in Bodies(r)}
    \cup {[endpoint |-> "/api/sql", header |-> h, body |-> b] :
            h \in Headers, b \in {Insert(r)}}

\* A client sends a request to the serving gateway. Requests are numbered in
\* the order of their arrival.
Arrive(r, in) ==
    /\ phase = "running"
    /\ pc[r] = "idle"
    /\ r > 1 => pc[r - 1] # "idle"
    /\ pc' = [pc EXCEPT ![r] = "before"]
    /\ req' = [req EXCEPT ![r] = in]
    /\ UNCHANGED <<cliVars, g, conns, disk, cur, resp>>

\* validate(), the before_request hook. A returned response (401) skips the
\* view; app.config['DATABASE'] raises KeyError when the key was never set.
Validate(r) ==
    /\ pc[r] = "before"
    /\ IF ~Authorized(req[r].header, appConfig.SECRET_KEY)
       THEN /\ resp' = [resp EXCEPT ![r] = AuthFailure]
            /\ pc' = [pc EXCEPT ![r] = "teardown"]
            /\ UNCHANGED <<g, conns>>
       ELSE IF g[Ctx(r)] # NoHandle
       THEN /\ pc' = [pc EXCEPT ![r] = "view"]
            /\ UNCHANGED <<g, conns, resp>>
       ELSE IF appConfig.DATABASE = Unset
       THEN /\ resp' = [resp EXCEPT ![r] = Unhandled("KeyError")]
            /\ pc' = [pc EXCEPT ![r] = "teardown"]
            /\ UNCHANGED <<g, conns>>
       ELSE /\ conns' = [conns EXCEPT ![r] = Connect(appConfig.DATABASE, r)]
            /\ g' = [g EXCEPT ![Ctx(r)] = r]
            /\ pc' = [pc EXCEPT ![r] = "view"]
            /\ UNCHANGED resp
    /\ UNCHANGED <<cliVars, req, disk, cur>>

\* connect(), the view of GET /api/connect.
ConnectView(r) ==
    /\ pc[r] = "view"
    /\ req[r].endpoint = "/api/connect"
    /\ resp' = [resp EXCEPT ![r] = ConnectText]
    /\ pc' = [pc EXCEPT ![r] = "teardown"]
    /\ UNCHANGED <<cliVars, req, g, conns, disk, cur>>

\* The paths create_app registers a route for.
Routes == {"/api/connect", "/api/sql"}

\* A request on a path without a route: the before_request hook has run, and
\* dispatching raises the routing exception, which Flask answers with 404.
NotFoundView(r) ==
    /\ pc[r] = "view"
    /\ req[r].endpoint \notin Routes
    /\ resp' = [resp EXCEPT ![r] = NotFound]
    /\ pc' = [pc EXCEPT ![r] = "teardown"]
    /\ UNCHANGED <<cliVars, req, g, conns, disk, cur>>

\* What cursor.execute(sql) raises as sqlite3.Error on the content the
\* connection reads, "" when it raises nothing.
ExecError(h, stmt) ==
    CASE stmt.k = "malformed" -> "near \"SELEC\": syntax error"
      [] stmt.k = "create" /\ StoreOf(h).exists -> "table t already exists"
      [] stmt.k \in {"insert", "select"} /\ ~StoreOf(h).exists -> "no such table: t"
      [] stmt.k \in {"create", "insert"} /\ Locked(h) -> "database is locked"
      [] OTHER -> ""

\* The connection after cursor.execute(stmt) succeeded for request r. CREATE
\* TABLE runs outside a transaction and is durable at once; INSERT opens the
\* implicit transaction and stays pending until commit().
ExecutedSelectWrites(c, stmt, r) ==
    [c EXCEPT !.users = @ \cup {r},
              !.pending = CASE stmt.k = "insert" -> Append(@, stmt.row)
                            [] stmt.k = "select" -> Append(@, <<r, "a">>)
                            [] OTHER -> @,
              !.store = IF stmt.k = "create" /\ c.target = "memory"
                        THEN [@ EXCEPT !.exists = TRUE] ELSE @]

Executed(c, stmt, r) ==
    [c EXCEPT !.users = @ \cup {r},
              !.pending = IF stmt.k = "insert" THEN Append(@, stmt.row) ELSE @,
              !.store = IF stmt.k = "create" /\ c.target = "memory"
                        THEN [@ EXCEPT !.exists = TRUE] ELSE @]

\* The connection after cursor.execute(stmt) raised for request r: sqlite
\* undoes what a failing statement did, nothing is left in a transaction.
FailedHalfDone(c, stmt, r) == Executed(c, stmt, r)

Failed(c, stmt, r) == [c EXCEPT !.users = @ \cup {r}]

\* sql(), the view of POST /api/sql, up to the return of cursor.execute in
\* s4_sql: an sqlite3.Error is turned into {'error': str(e)}, any other
\* exception leaves s4_sql and sql(); the finally clause closes the cursor.
SqlView(r) ==
    /\ pc[r] = "view"
    /\ req[r].endpoint = "/api/sql"
    /\ LET h == g[Ctx(r)]
           body == req[r].body
           closed == [state |-> "closed", conn |-> h, result |-> <<>>]
           raise(exc) == /\ resp' = [resp EXCEPT ![r] = Unhandled(exc)]
                         /\ pc' = [pc EXCEPT ![r] = "teardown"]
       IN  IF Falsy(body)
           THEN /\ resp' = [resp EXCEPT ![r] = ErrorDict("No SQL query provided.")]
                /\ pc' = [pc EXCEPT ![r] = "teardown"]
                /\ UNCHANGED <<conns, disk, cur>>
           ELSE IF h = NoHandle
           THEN raise("AttributeError") /\ UNCHANGED <<conns, disk, cur>>
           ELSE IF ~conns[h].open
           THEN raise("ProgrammingError") /\ UNCHANGED <<conns, disk, cur>>
           ELSE IF body.k = "number"
           THEN /\ raise("TypeError")
                /\ cur' = [cur EXCEPT ![r] = closed]
                /\ conns' = [conns EXCEPT ![h] = Failed(@, body, r)]
                /\ UNCHANGED disk
           ELSE IF ExecError(h, body) # ""
           THEN /\ resp' = [resp EXCEPT ![r] = ErrorDict(ExecError(h, body))]
                /\ pc' = [pc EXCEPT ![r] = "teardown"]
                /\ cur' = [cur EXCEPT ![r] = closed]
                /\ conns' = [conns EXCEPT ![h] = Failed(@, body, r)]
                /\ UNCHANGED disk
           ELSE /\ conns' = [conns EXCEPT ![h] = Executed(@, body, r)]
                /\ disk' = IF body.k = "create" /\ conns[h].target = "file"
                           THEN [disk EXCEPT !.exists = TRUE] ELSE disk
                /\ cur' = [cur EXCEPT ![r] =
                             [state |-> "open", conn |-> h,
                              result |-> IF body.k = "select"
                                         THEN StoreOf(h).rows ELSE <<>>]]
                /\ pc' = [pc EXCEPT ![r] = "commit"]
                /\ UNCHANGED resp
    /\ UNCHANGED <<cliVars, req, g>>

\* The rows of a store after the transaction's pending rows are committed.
CommitRowsLost(store, pending) == store

CommitRows(store, pending) == [store EXCEPT !.rows = @ \o pending]

\* The connection after commit(): its transaction is over, and the rows of
\* a ':memory:' connection are in its own store.
CommittedLater(c) == c

Committed(c) ==
    [c EXCEPT !.pending = <<>>,
              !.store = IF c.target = "memory" THEN CommitRows(@, c.pending) ELSE @]

\* g.db.commit() in s4_sql, line 98.
SqlCommit(r) ==
    /\ pc[r] = "commit"
    /\ LET h == g[Ctx(r)]
           closed == [cur[r] EXCEPT !.state = "closed"]
       IN  IF h = NoHandle
           THEN /\ resp' = [resp EXCEPT ![r] = Unhandled("AttributeError")]
                /\ pc' = [pc EXCEPT ![r] = "teardown"]
                /\ cur' = [cur EXCEPT ![r] = closed]
                /\ UNCHANGED <<conns, disk>>
           ELSE IF ~conns[h].open
           THEN /\ resp' = [resp EXCEPT ![r] =
                              ErrorDict("Cannot operate on a closed database.")]
                /\ pc' = [pc EXCEPT ![r] = "teardown"]
                /\ cur' = [cur EXCEPT ![r] = closed]
                /\ UNCHANGED <<conns, disk>>
           ELSE /\ conns' = [conns EXCEPT ![h] = Committed(@)]
                /\ disk' = IF conns[h].target = "file"
                           THEN CommitRows(disk, conns[h].pending) ELSE disk
                /\ pc' = [pc EXCEPT ![r] = "fetch"]
                /\ UNCHANGED <<cur, resp>>
    /\ UNCHANGED <<cliVars, req, g>>

\* cursor.fetchall(), the return of {'sqlResponse': results} and the finally
\* clause of s4_sql, lines 99-105. The connection's row_factory shapes each row.
SqlFetch(r) ==
    /\ pc[r] = "fetch"
    /\ LET h == cur[r].conn
           rows == cur[r].result
       IN  /\ resp' = [resp EXCEPT ![r] =
                         IF conns[h].open
                         THEN SqlResponse([i \in 1..Len(rows) |->
                                             DictFactory(Fields, rows[i])])
                         ELSE ErrorDict("Cannot operate on a closed database.")]
           /\ cur' = [cur EXCEPT ![r] = [@ EXCEPT !.state = "closed"]]
           /\ pc' = [pc EXCEPT ![r] = "teardown"]
    /\ UNCHANGED <<cliVars, req, g, conns, disk>>

\* Line 158: whether teardown closes what g.pop('db', None) returned.
\* `exception` is teardown's argument: whether an exception left the handlers.
ClosesOnSuccessOnly(db, exception) == db # NoHandle /\ ~exception

Closes(db, exception) == db # NoHandle

\* sqlite3.Connection.close(): an open transaction is rolled back, the lock is
\* released, and a ':memory:' store goes with its connection.
Close(c) == [c EXCEPT !.open = FALSE, !.closes = @ + 1, !.pending = <<>>,
                      !.store = EmptyDb]

\* teardown(), the teardown_appcontext hook: runs when the request's
\* application context is popped, whatever the handlers did.
Teardown(r) ==
    /\ pc[r] = "teardown"
    /\ LET db == g[Ctx(r)]
       IN  /\ g' = [g EXCEPT ![Ctx(r)] = NoHandle]
           /\ conns' = IF Closes(db, resp[r].kind = "unhandled")
                       THEN [conns EXCEPT ![db] = Close(@)] ELSE conns
    /\ pc' = [pc EXCEPT ![r] = "done"]
    /\ UNCHANGED <<cliVars, req, disk, cur, resp>>

\* The serving process is stopped once it handles no request.
Stop ==
    /\ phase = "running"
    /\ \A r \in Requests : ~InFlight(r)
    /\ phase' = "stopped"
    /\ UNCHANGED <<file, genCount, starts, appConfig, runConfig, warned, lastCli>>
    /\ UNCHANGED reqVars

\* ---------------------------------------------------------- specification
\* config.json as the operator's instance directory holds it at the start:
\* absent, unparseable, the empty object, a complete config, or an object
\* that misses one of the two keys.
InitialFiles ==
    {NoFile, CorruptFile, JsonFile(Unset, Unset), JsonFile(Token(0), DbPath),
     JsonFile(Unset, DbPath), JsonFile(Token(0), Unset)}

\* No request has arrived yet, and the database file holds d.
NoRequestsOn(d) ==
    /\ pc = [r \in Requests |-> "idle"]
    /\ req = [r \in Requests |-> NoRequest]
    /\ g = [r \in Requests |-> NoHandle]
    /\ conns = [r \in Requests |-> NoConn]
    /\ disk = d
    /\ cur = [r \in Requests |-> NoCursor]
    /\ resp = [r \in Requests |-> NoResp]

NoRequests == NoRequestsOn(EmptyDb)

\* The command line: invocations of cli() on an instance directory.
InitCli ==
    /\ \E f \in InitialFiles : CliVarsAre(Fresh(f))
    /\ NoRequests

NextCli ==
    \/ \E configure, run, in_memory, confirm \in BOOLEAN :
         Cli(configure, run, in_memory, confirm)
    \/ \E confirm, dbOpens \in BOOLEAN : ConfigureS4(confirm, dbOpens)
    \/ Stop

SpecCli == InitCli /\ [][NextCli]_vars

\* A serving gateway: the state `s4 --run [--in-memory]` leaves when it
\* reaches app.run(), on each config.json it can find.
Init ==
    /\ \E f \in InitialFiles, in_memory \in BOOLEAN :
         LET t == CliStep(Fresh(f), FALSE, TRUE, in_memory, FALSE)
         IN  t.phase = "running" /\ CliVarsAre(t)
    /\ NoRequests

Handle(r) ==
    \/ Validate(r)
    \/ ConnectView(r)
    \/ SqlView(r)
    \/ SqlCommit(r)
    \/ SqlFetch(r)
    \/ Teardown(r)

\* Requests that the threaded server handles concurrently.
Next ==
    \/ \E r \in 1..MaxConc : \E in \in Inputs(r) : Arrive(r, in)
    \/ \E r \in 1..MaxConc : Handle(r)

Spec == Init /\ [][Next]_vars

\* Requests sent one after the other: the next one once the last is answered.
NextSerial ==
    \/ \E r \in Requests : \E in \in Inputs(r) :
         /\ \A q \in Requests : ~InFlight(q)
         /\ Arrive(r, in)
    \/ \E r \in Requests : Handle(r)

SpecSerial == Init /\ [][NextSerial]_vars

\* The credentials a client may hold over the life of an instance directory:
\* every secret config.json held or will hold.
Credentials == {Token(n) : n \in 0..MaxGen}

\* What clients send while the operator works on the instance directory: the
\* liveness check with each credential, and a CREATE TABLE with the secret of
\* the serving gateway.
LifeInputs(r) ==
    {[endpoint |-> "/api/connect", header |-> h, body |-> NoSqlKey] :
        h \in Credentials}
    \cup {[endpoint |-> "/api/sql", header |-> appConfig.SECRET_KEY, body |-> Create]}

\* The life of an instance directory: invocations of the command line, one
\* of them serving, and requests sent to the serving gateway one after the
\* other while other invocations run.
NextLife ==
    \/ \E configure, run, in_memory, confirm \in BOOLEAN :
         Cli(configure, run, in_memory, confirm)
    \/ \E confirm, dbOpens \in BOOLEAN : ConfigureS4(confirm, dbOpens)
    \/ Stop
    \/ \E r \in 1..MaxConc : \E in \in LifeInputs(r) :
         /\ \A q \in Requests : ~InFlight(q)
         /\ Arrive(r, in)
    \/ \E r \in 1..MaxConc : Handle(r)

SpecLife == InitCli /\ [][NextLife]_vars

\* The command line with invocations that are killed while they write
\* config.json.
NextKilled ==
    \/ \E configure, run, in_memory, confirm \in BOOLEAN :
         Cli(configure, run, in_memory, confirm)
    \/ \E confirm, dbOpens \in BOOLEAN : ConfigureS4(confirm, dbOpens)
    \/ \E confirm \in BOOLEAN :
         \E left \in Torn(JsonDump(CreateConfigFile(genCount + 1))) :
           CliKilled(confirm, left)
    \/ \E confirm \in BOOLEAN :
         \E left \in Torn(JsonDump(GenerateConfigFile(genCount + 1))) :
           ConfigureS4Killed(confirm, left)
    \/ Stop

SpecKilled == InitCli /\ [][NextKilled]_vars

\* The secret_key a client is constructed with: the default 's4', the
\* gateway's secret, or another string.
ClientSecrets == {DefaultSecret, WrongKey, appConfig.SECRET_KEY} \ {None}

\* Clients constructed against the serving gateway, one after the other,
\* next to requests sent to the gateway directly.
NextClient ==
    \/ \E r \in 1..MaxConc : \E secret_key \in ClientSecrets :
         /\ \A q \in Requests : ~InFlight(q)
         /\ Arrive(r, VerifyConnectionGet(secret_key))
    \/ \E r \in 1..MaxConc : \E in \in Inputs(r) :
         /\ \A q \in Requests : ~InFlight(q)
         /\ Arrive(r, in)
    \/ \E r \in 1..MaxConc : Handle(r)
    \/ \E r \in 1..MaxConc : NotFoundView(r)

SpecClient == Init /\ [][NextClient]_vars

\* The command line on an instance directory whose database file cannot be
\* opened: sqlite3.connect(database_file_path) of configure_s4 raises; cli()
\* of server.py calls sqlite3.connect nowhere.
NextNoDb ==
    \/ \E configure, run, in_memory, confirm \in BOOLEAN :
         Cli(configure, run, in_memory, confirm)
    \/ \E confirm \in BOOLEAN : ConfigureS4(confirm, FALSE)
    \/ Stop

SpecNoDb == InitCli /\ [][NextNoDb]_vars

\* The database file an earlier run of the gateway left: table t with the
\* row of one INSERT.
PersistedDb == [exists |-> TRUE, rows |-> <<Insert(0).row>>]

\* A gateway started with `s4 --run` on a complete config.json, whose
\* database file holds what earlier runs committed; requests are sent one
\* after the other.
InitPersisted ==
    /\ LET t == CliStep(Fresh(JsonFile(Token(0), DbPath)), FALSE, TRUE, FALSE, FALSE)
       IN  t.phase = "running" /\ CliVarsAre(t)
    /\ \E d \in {EmptyDb, PersistedDb} : NoRequestsOn(d)

SpecPersisted == InitPersisted /\ [][NextSerial]_vars

\* -------------------------------------------------------------------- claims
SqlEndpoint(r) == req[r].endpoint = "/api/sql"
\* The request has left validate().
PastGate(r) == pc[r] \notin {"idle", "before"}
\* The request's handlers have returned or raised.
Answered(r) == pc[r] \in {"teardown", "done"}
Handles == {h \in Requests : conns[h].opener # NoHandle}
OpenedFor(r) == {h \in Handles : conns[h].opener = r}
UsedBy(r) == {h \in Handles : r \in conns[h].users}

\* C1: every request whose s4-Secret-Key header is absent or differs from the
\* configured secret, under every configuration the instance runs with, is
\* answered 401 {error: "Invalid secret key."}, and no connection is opened
\* and no statement is executed for it.
C1_DenyBeforeStore ==
    \A r \in Requests :
        (PastGate(r) /\ (req[r].header = None \/ req[r].header # appConfig.SECRET_KEY))
        => /\ resp[r] = AuthFailure
           /\ OpenedFor(r) = {}
           /\ UsedBy(r) = {}
           /\ cur[r] = NoCursor

\* C2: every connection opened for a request is closed exactly once by the
\* time the request's context is torn down, on every exit path; no handle
\* outlives the request that opened it.
C2_ClosedExactlyOnce ==
    \A h \in Handles :
        /\ conns[h].closes <= 1
        /\ conns[h].open => InFlight(conns[h].opener)
        /\ pc[conns[h].opener] = "done" => (~conns[h].open /\ conns[h].closes = 1)

\* C2 witness: a request whose route handler raised (TypeError out of
\* cursor.execute) is torn down and its connection was closed once, next to
\* a request that ended with a structured response and a closed connection.
C2_Witness ==
    \E r, q \in Requests :
        /\ pc[r] = "done" /\ resp[r].kind = "unhandled" /\ resp[r].msg = "TypeError"
        /\ \E h \in OpenedFor(r) : conns[h].closes = 1
        /\ pc[q] = "done" /\ resp[q].kind \in {"error", "sqlResponse"}
        /\ \E h \in OpenedFor(q) : conns[h].closes = 1

\* C3: under any interleaving of concurrent requests, each in-flight
\* authorized request holds a connection handle of its own that no other
\* request uses, and once all requests have completed no handle is open.
C3_OwnHandlePerRequest ==
    /\ \A r1, r2 \in Requests :
          (r1 # r2 /\ InFlight(r1) /\ InFlight(r2) /\ g[Ctx(r1)] # NoHandle)
          => g[Ctx(r1)] # g[Ctx(r2)]
    /\ \A r \in Requests :
          pc[r] \in {"view", "commit", "fetch"}
          => /\ g[Ctx(r)] # NoHandle
             /\ conns[g[Ctx(r)]].open
             /\ conns[g[Ctx(r)]].opener = r
    /\ \A h \in Handles : conns[h].users \subseteq {conns[h].opener}
    /\ (\A r \in Requests : ~InFlight(r)) => \A h \in Handles : ~conns[h].open

\* C3 witness: two requests execute statements at the same time, each on an
\* open connection.
C3_Witness ==
    \E r1, r2 \in Requests :
        /\ r1 # r2
        /\ pc[r1] = "commit" /\ pc[r2] \in {"commit", "fetch"}
        /\ conns[g[Ctx(r1)]].open /\ conns[g[Ctx(r2)]].open

\* An authorized POST /api/sql whose sql member is empty or absent, on an
\* instance whose configuration holds a database location.
EmptySqlRequest(r) ==
    /\ SqlEndpoint(r)
    /\ req[r].header = appConfig.SECRET_KEY
    /\ req[r].body.k \in {"absent", "empty"}
    /\ appConfig.DATABASE # Unset

C5_StatusMatchesBody ==
    \A r \in Requests :
        (SqlEndpoint(r) /\ Answered(r))
        => /\ resp[r].kind = "sqlResponse" => resp[r].status \in 200..299
           /\ resp[r].kind = "error" =>
                 IF resp[r] = AuthFailure \/ req[r].body.k \in {"absent", "empty"}
                 THEN resp[r].status \in 400..499
                 ELSE resp[r].status \in 500..599

\* C6: for every authorized POST /api/sql with a non-empty sql value that
\* s4_sql runs, no exception leaves the executor: the request ends with
\* {sqlResponse: rows} or {error: message}.
C6_NoExceptionEscapes ==
    \A r \in Requests :
        (/\ SqlEndpoint(r)
         /\ req[r].header = appConfig.SECRET_KEY
         /\ req[r].body.k \notin {"absent", "empty"}
         /\ cur[r] # NoCursor
         /\ Answered(r))
        => resp[r].kind \in {"sqlResponse", "error"}

\* The requests before r, sent one after the other, that inserted a row and
\* were answered {sqlResponse}.
InsertedBefore(r) ==
    {q \in 1..(r - 1) : /\ req[q].body.k = "insert"
                        /\ resp[q].kind = "sqlResponse"
                        /\ \E c \in 1..(q - 1) : /\ req[c].body.k = "create"
                                                 /\ resp[c].kind = "sqlResponse"}

\* C7: on a running instance, after an authorized request created the table
\* and a later one inserted a row, both answered with success, a subsequent
\* authorized SELECT returns exactly the inserted rows as name-keyed records.
C7_RoundTrip ==
    \A r \in Requests :
        (/\ pc[r] = "done"
         /\ SqlEndpoint(r)
         /\ req[r].header = appConfig.SECRET_KEY
         /\ req[r].body = Select
         /\ InsertedBefore(r) # {})
        => /\ resp[r].kind = "sqlResponse"
           /\ Len(resp[r].rows) = Cardinality(InsertedBefore(r))
           /\ {resp[r].rows[i] : i \in 1..Len(resp[r].rows)}
                = {[id |-> q, name |-> "a"] : q \in InsertedBefore(r)}
           /\ \A i, j \in 1..Len(resp[r].rows) :
                 i < j => resp[r].rows[i].id < resp[r].rows[j].id

\* C7 witness: CREATE, INSERT and SELECT were answered in this order and the
\* SELECT returned the row.
C7_Witness ==
    \E r \in Requests :
        /\ pc[r] = "done" /\ req[r].body = Select
        /\ InsertedBefore(r) # {}
        /\ Len(resp[r].rows) = 1

\* C8: in every running state the default credential is never paired with a
\* persisted store: with no persisted config the instance runs only with the
\* credential 's4' and the ':memory:' database and signals it to the
\* operator, and a persisted database path is used only with a credential
\* read from, or just generated into, the persisted config.
C8_DefaultNeverPersisted ==
    phase = "running"
    => /\ ~(appConfig.SECRET_KEY = DefaultSecret /\ appConfig.DATABASE # MemoryDb)
       /\ ~Truthy(runConfig)
            => (appConfig = [SECRET_KEY |-> DefaultSecret, DATABASE |-> MemoryDb]
                /\ warned)
       /\ appConfig.DATABASE = DbPath
            => (/\ Truthy(runConfig)
                /\ runConfig.SECRET_KEY # Unset
                /\ appConfig.SECRET_KEY = runConfig.SECRET_KEY)

\* C9: a corrupt or partial persisted config is never treated as valid: the
\* instance never serves after reading an unparseable file, and never serves
\* with a secret or a database location left unset by a config that misses it.
C9_PartialConfigNeverRuns ==
    /\ file.kind = "corrupt" => phase # "running"
    /\ phase = "running"
       => /\ Resolve(runConfig).SECRET_KEY # Unset
          /\ Resolve(runConfig).DATABASE # Unset
          /\ appConfig.SECRET_KEY # None
          /\ appConfig.DATABASE # Unset

\* What --configure does to config.json in one step, given whether a
\* persisted config is `present` and the operator's answer.
ConfirmGated(present, configure, confirm) ==
    /\ (present /\ file' # file) => (configure /\ confirm /\ lastCli'.asked)
    /\ (present /\ configure /\ ~confirm) => file' = file

C11_FixedAtStart ==
    [][/\ (phase = "running" /\ phase' = "running") => appConfig' = appConfig
       /\ \A r \in Requests :
            Validate(r)
            => /\ resp'[r] = AuthFailure <=> req[r].header # appConfig.SECRET_KEY
               /\ conns'[r].open
                    => (conns'[r].target = "memory" <=> appConfig.DATABASE = MemoryDb)
       /\ (phase = "running" /\ genCount' # genCount)
            => /\ file'.sk = Token(genCount')
               /\ appConfig'.SECRET_KEY # file'.sk
       /\ (phase' = "running" /\ phase = "stopped" /\ genCount' > 0)
            => /\ appConfig'.SECRET_KEY = Token(genCount')
               /\ \A n \in 0..(genCount' - 1) : appConfig'.SECRET_KEY # Token(n)
      ]_vars

\* C11 witness: config.json was regenerated while the gateway serves with
\* the secret it started with; a liveness check carrying the new secret was
\* denied and one carrying the old secret is answered.
C11_Witness ==
    /\ phase = "running"
    /\ file = JsonFile(Token(1), DbPath)
    /\ appConfig.SECRET_KEY = Token(0)
    /\ \E r, q \in Requests :
         /\ req[r].header = Token(1) /\ resp[r] = AuthFailure
         /\ req[q].header = Token(0) /\ resp[q] = ConnectText /\ pc[q] = "teardown"

\* C12: generate persists the config atomically: whenever an invocation
\* that writes config.json ends, killed or not, the file is what it was
\* before or the complete new config, and a later read never returns a
\* half-written config as valid.
C12_AtomicPersist ==
    [][file' # file
       => /\ file' = JsonFile(Token(genCount'), DbPath)
          /\ ~ReadRaises(file')
          /\ ReadConfigFile(file') = Dict(Token(genCount'), DbPath)
      ]_vars

\* The request is the GET that the constructor of a client sends, answered by
\* a gateway whose configuration holds a secret and a database location.
ClientCheck(r) ==
    /\ req[r].endpoint = BaseUrlPath
    /\ Answered(r)
    /\ appConfig.SECRET_KEY # None
    /\ appConfig.DATABASE # Unset

\* C13: the client's liveness check reaches the gateway's liveness
\* operation: a client constructed with the gateway's configured secret is
\* answered 200 and verify_connection does not raise; a client constructed
\* with another secret gets ConnectionError.
C13_ClientReachesLiveness ==
    \A r \in Requests :
        ClientCheck(r)
        => /\ req[r].header = appConfig.SECRET_KEY
                => (resp[r] = ConnectText /\ ~VerifyRaises(resp[r]))
           /\ req[r].header # appConfig.SECRET_KEY => VerifyRaises(resp[r])

\* C14: when the database at the instance's database location cannot be
\* opened, configure is fatal: an invocation with --configure creates and
\* overwrites no config.json, and does not go on to serve on that database.
C14_NoDatabaseNoConfig ==
    [][/\ \A configure, run, in_memory, confirm \in BOOLEAN :
            (Cli(configure, run, in_memory, confirm) /\ configure)
            => /\ file' = file
               /\ ~(phase = "stopped" /\ phase' = "running"
                     /\ appConfig'.DATABASE = DbPath)
       /\ \A confirm \in BOOLEAN :
            ConfigureS4(confirm, FALSE) => (file' = file /\ phase' = phase)
      ]_vars

\* The order in which a request passes its steps: validate(), the view with
\* cursor.execute, commit(), fetchall() with the cursor's close, teardown().
StepOrder ==
    {<<"idle", "before">>, <<"before", "view">>, <<"before", "teardown">>,
     <<"view", "commit">>, <<"view", "teardown">>, <<"commit", "fetch">>,
     <<"commit", "teardown">>, <<"fetch", "teardown">>, <<"teardown", "done">>}

\* C15: the order within a request is fixed: credential check, connection
\* open, statement execute, commit, fetch of all rows, cursor close,
\* connection close. The commit is done before the results are fetched, and
\* the rows are in the response and the cursor is closed while the
\* connection is still open; teardown closes the connection last.
C15_FixedOrder ==
    [][\A r \in Requests :
         pc'[r] # pc[r]
         => /\ <<pc[r], pc'[r]>> \in StepOrder
            /\ pc'[r] = "view"
                 => /\ req[r].header = appConfig.SECRET_KEY
                    /\ conns'[r].open /\ ~conns[r].open
                    /\ cur'[r] = NoCursor
            /\ pc'[r] = "commit"
                 => /\ conns[r].open /\ conns[r].pending = <<>>
                    /\ cur[r] = NoCursor /\ cur'[r].state = "open"
                    /\ resp'[r] = NoResp
            /\ pc'[r] = "fetch"
                 => /\ conns'[r].open /\ conns'[r].pending = <<>>
                    /\ cur'[r].state = "open" /\ resp'[r] = NoResp
            /\ pc[r] = "fetch"
                 => /\ conns'[r].open
                    /\ cur'[r].state = "closed"
                    /\ resp'[r].kind = "sqlResponse"
                    /\ Len(resp'[r].rows) = Len(cur[r].result)
            /\ pc'[r] = "done"
                 => /\ resp[r] # NoResp /\ resp'[r] = resp[r]
                    /\ cur[r].state # "open"
                    /\ ~conns'[r].open
                    /\ conns[r].opener = r => (conns[r].open /\ conns'[r].closes = 1)
      ]_vars

\* C15 witness: a SELECT that found a committed row went through every step:
\* the row is in the response, the cursor is closed, and teardown has closed
\* the connection.
C15_Witness ==
    \E r \in Requests :
        /\ pc[r] = "done" /\ req[r].body = Select
        /\ resp[r] = SqlResponse(<<[id |-> r - 1, name |-> "a"]>>)
        /\ cur[r].state = "closed"
        /\ conns[r].opener = r /\ ~conns[r].open /\ conns[r].closes = 1

\* The keys of the JSON object in a response's body.
Keys(response) ==
    CASE response.kind = "sqlResponse" -> {"sqlResponse"}
      [] response.kind = "error" -> {"error"}
      [] OTHER -> {}

\* How many of the rows were inserted by request r.
RowsOf(r, rows) == Cardinality({i \in 1..Len(rows) : rows[i][1] = r})

\* C16: every call of s4_sql runs the statement at most once and ends in
\* exactly one outcome: the result holds exactly one of the keys sqlResponse
\* and error; a committed INSERT has put its row into the database once, a
\* failed one not at all.
C16_OneOutcome ==
    \A r \in Requests :
        (SqlEndpoint(r) /\ cur[r] # NoCursor /\ Answered(r))
        => /\ Cardinality(Keys(resp[r])) = 1
           /\ (req[r].body.k = "insert" /\ conns[r].target = "file")
                => RowsOf(r, disk.rows) = IF resp[r].kind = "sqlResponse" THEN 1 ELSE 0

\* Request r ran a statement that failed: s4_sql returned {'error': str(e)}.
FailedStatement(r) ==
    /\ SqlEndpoint(r)
    /\ cur[r] # NoCursor
    /\ resp[r].kind = "error"

\* C17: a request whose statement fails leaves the committed database as it
\* was: the step in which the statement fails and the teardown of the
\* failing request change nothing that is committed, the failing request
\* holds no pending change, and once its connection is closed no row of it
\* is in the database for a later request to see.
C17_FailedLeavesCommitted ==
    [][\A r \in Requests :
         /\ (pc[r] = "view" /\ FailedStatement(r)')
              => (disk' = disk /\ conns'[r].pending = <<>>
                  /\ conns'[r].store = conns[r].store)
         /\ (pc[r] = "teardown" /\ pc'[r] = "done" /\ FailedStatement(r))
              => (disk' = disk /\ ~conns'[r].open
                  /\ RowsOf(r, disk'.rows) = 0)
      ]_vars

\* C17 witness: after a row was committed, a later request sent a malformed
\* statement, was answered {error} and torn down; the database holds what it
\* held before.
C17_Witness ==
    \E r \in Requests :
        /\ pc[r] = "done" /\ FailedStatement(r) /\ req[r].body = Malformed
        /\ ~conns[r].open
        /\ disk = [exists |-> TRUE, rows |-> <<Insert(r - 1).row>>]

\* An authorized POST /api/sql of request r with a statement of kind k.
Statement(r, k) ==
    /\ SqlEndpoint(r)
    /\ req[r].header = appConfig.SECRET_KEY
    /\ req[r].body.k = k

\* C18: with the database location ':memory:' every request opens a fresh,
\* empty in-memory store of its own: nothing is written to the database
\* file, a request finds no table whatever earlier or concurrent requests
\* created or wrote, a CREATE TABLE succeeds in every request, and the store
\* is gone when the request's connection is closed.
C18_MemoryNotShared ==
    appConfig.DATABASE = MemoryDb
    => /\ disk = EmptyDb
       /\ \A r \in Requests :
            /\ conns[r].opener = r => conns[r].target = "memory"
            /\ pc[r] = "view" => conns[r].store = EmptyDb
            /\ pc[r] = "done" => conns[r].store = EmptyDb
            /\ (Answered(r) /\ (Statement(r, "insert") \/ Statement(r, "select")))
                 => resp[r] = ErrorDict("no such table: t")
            /\ (Answered(r) /\ Statement(r, "create"))
                 => resp[r] = SqlResponse(<<>>)

\* C18 witness: on an in-memory instance one request created the table with
\* success, and a SELECT of another request does not find it.
C18_Witness ==
    /\ appConfig.DATABASE = MemoryDb
    /\ \E r, q \in Requests :
         /\ Statement(r, "create") /\ resp[r] = SqlResponse(<<>>) /\ Answered(r)
         /\ Statement(q, "select") /\ pc[q] = "done"
         /\ resp[q] = ErrorDict("no such table: t")

\* The response of a request that failed: 401, {'error': ...}, or the page
\* Flask sends for an exception.
Failure(response) == response.kind \in {"error", "unhandled", "notfound"}

\* What belongs to request q: its position, its flask.g, its connection and
\* cursor, its response.
Own(q) == <<pc[q], g[Ctx(q)], conns[q], cur[q], resp[q]>>

\* C19: under any interleaving a failure in one request does not reach
\* another request. A step of a request changes nothing that belongs to
\* another one, so teardown after a failure closes the failing request's
\* connection only; a request that failed has changed nothing in the
\* database and holds no lock on it; and when a statement is refused because
\* the database is locked, the lock is held by a request whose statement
\* succeeded, never by one that failed.
C19_FailuresIsolated ==
    [][\A r \in Requests :
         pc'[r] # pc[r]
         => /\ \A q \in Requests \ {r} : Own(q)' = Own(q)
            /\ Failure(resp'[r])
                 => (disk' = disk /\ conns'[r].pending = <<>>)
            /\ (pc[r] = "view" /\ resp'[r] = ErrorDict("database is locked"))
                 => \E o \in Requests \ {r} :
                      /\ conns[o].open /\ conns[o].pending # <<>>
                      /\ ~Failure(resp[o])
      ]_vars

\* C19 witness: while a request waits between execute and commit on its open
\* connection, a request that arrived later raised an exception in its view
\* and was torn down.
C19_Witness ==
    \E r, q \in Requests :
        /\ q < r
        /\ pc[r] = "done" /\ resp[r].kind = "unhandled"
        /\ conns[r].closes = 1
        /\ pc[q] = "commit" /\ conns[q].open /\ cur[q].state = "open"
        /\ g[Ctx(q)] = q

\* Request k committed a write: its CREATE TABLE or INSERT was answered
\* {sqlResponse}.
Wrote(k) ==
    /\ SqlEndpoint(k)
    /\ req[k].body.k \in {"create", "insert"}
    /\ resp[k].kind = "sqlResponse"

\* Two answered SELECTs with no committed write between them have the same
\* rows in the same order.
SameRows ==
    \A r, q \in Requests :
        (/\ r < q
         /\ Statement(r, "select") /\ pc[r] = "done"
         /\ Statement(q, "select") /\ pc[q] = "done"
         /\ \A k \in (r + 1)..(q - 1) : ~Wrote(k))
        => resp[q] = resp[r]

\* C20: on an instance with a persisted database, two authorized requests
\* that run the same SELECT with no write committed between them return the
\* same sequence of rows, and no step of a SELECT request changes what is
\* committed.
C20_ReadIdempotent ==
    [][/\ SameRows'
       /\ \A r \in Requests :
            (pc'[r] # pc[r] /\ Statement(r, "select")')
            => (disk' = disk /\ conns'[r].pending = <<>>)
      ]_vars

\* C20 witness: two SELECTs, one after the other, each returned the row the
\* database file holds.
C20_Witness ==
    \E r \in Requests :
        /\ r + 1 \in Requests
        /\ Statement(r, "select") /\ pc[r] = "done"
        /\ Statement(r + 1, "select") /\ pc[r + 1] = "done"
        /\ resp[r] = SqlResponse(<<[id |-> 0, name |-> "a"]>>)
        /\ resp[r + 1] = resp[r]
        /\ disk = PersistedDb

====
